---- MODULE Spec2Model ----
(***************************************************************************)
(* Model of ra_dec_to_alt_az (src/src/main.rs): the sexagesimal parser     *)
(* to_decimal_degrees, the clock-derived quantities, calculate_alt_az and  *)
(* AstroObject::coords_as_alt_az.                                          *)
(*                                                                         *)
(* f32 values are modelled in fixed point.  A parsed angle is an exact     *)
(* count of 1/3600 degree; angles of the query pipeline are counts of      *)
(* 1/1000 degree; sines and cosines are counts of 1/10000.  The non-finite *)
(* f32 values (infinity, NaN) are separate values of the model.            *)
(***************************************************************************)
EXTENDS Integers, Sequences, FiniteSets, TLC

VARIABLES
    input, coord_type, result,      \* a call of to_decimal_degrees
    clock, ticks,                   \* the system clock, and how often it moved
    object, location_info,          \* the AstroObject and the GeoCoords of a query
    pc, reads,                      \* position in coords_as_alt_az, instants Utc::now() returned
    days_j2000, local_sidereal_time, hour_angle, alt_az

parserVars == <<input, coord_type, result>>
queryVars  == <<clock, ticks, object, location_info, pc, reads,
                days_j2000, local_sidereal_time, hour_angle, alt_az>>
vars == <<parserVars, queryVars>>

(***************************************************************************)
(* Bounds of the parser inputs.                                            *)
(***************************************************************************)
MaxPieces == 7

\* The pieces an input string is put together from: a digit, a letter that
\* is no separator, the literal "inf", and two separators.
Pieces == { <<"1">>, <<"x">>, <<"i", "n", "f">>, <<" ">>, <<"-">> }

RECURSIVE Flatten(_)
Flatten(ps) == IF ps = <<>> THEN <<>> ELSE Head(ps) \o Flatten(Tail(ps))

Inputs == { Flatten(ps) : ps \in UNION { [1..n -> Pieces] : n \in 0..MaxPieces } }

(***************************************************************************)
(* enum Coord                                                              *)
(***************************************************************************)
Coord == {"RA", "DEC"}

(***************************************************************************)
(* to_decimal_degrees                                                      *)
(***************************************************************************)
\* The separator set handed to str::split.  The degree, prime and double
\* prime signs are written "deg", "arcmin" and "arcsec".
Separators == {" ", "h", "m", "s", "deg", "arcmin", "+", "-", "arcsec"}

\* input.split(&[...][..]): the pieces between separators, empty ones included.
RECURSIVE SplitFrom(_, _)
SplitFrom(s, cur) ==
    IF s = <<>> THEN <<cur>>
    ELSE IF Head(s) \in Separators
         THEN <<cur>> \o SplitFrom(Tail(s), <<>>)
         ELSE SplitFrom(Tail(s), Append(cur, Head(s)))

Split(s) == SplitFrom(s, <<>>)

\* a filter that keeps the empty pieces too
KeepEmpty(piece) == TRUE

NotEmpty(piece) == piece # <<>>

\* .filter(|ch| !ch.is_empty()).collect()
Tokens(s) == SelectSeq(Split(s), NotEmpty)

Digit == [c \in {"0", "1", "2", "3", "4", "5", "6", "7", "8", "9"} |->
            CASE c = "0" -> 0 [] c = "1" -> 1 [] c = "2" -> 2 [] c = "3" -> 3
              [] c = "4" -> 4 [] c = "5" -> 5 [] c = "6" -> 6 [] c = "7" -> 7
              [] c = "8" -> 8 [] c = "9" -> 9]

RECURSIVE DecimalValue(_)
DecimalValue(tok) ==
    IF tok = <<>> THEN 0
    ELSE 10 * DecimalValue(SubSeq(tok, 1, Len(tok) - 1)) + Digit[tok[Len(tok)]]

AllDigits(tok) == tok # <<>> /\ \A i \in 1..Len(tok) : tok[i] \in DOMAIN Digit

\* An f32: a finite value n (in the unit of its context), an infinity or NaN.
Finite(n) == [cls |-> "finite", n |-> n]
Infinity  == [cls |-> "inf", n |-> 0]
NaN       == [cls |-> "nan", n |-> 0]
IsFinite(v) == v.cls = "finite"

ParseOk(v) == [ok |-> TRUE, val |-> v]
ParseErr   == [ok |-> FALSE, val |-> Finite(0)]

\* str::parse::<f32>() on a token: decimal digits give their value, the
\* literal "inf" gives infinity, anything else is a ParseFloatError.  (The
\* fraction, exponent and sign parts of the grammar need characters that
\* the inputs of this model do not contain.)
ParseF32(tok) ==
    IF AllDigits(tok) THEN ParseOk(Finite(DecimalValue(tok)))
    ELSE IF tok = <<"i", "n", "f">> THEN ParseOk(Infinity)
    ELSE ParseErr

\* Results of a call: Ok(value), Err(ParseFloatError), or a panic of the
\* thread (index out of bounds).
Ok(v)  == [tag |-> "Ok", val |-> v]
Err    == [tag |-> "Err", val |-> Finite(0)]
Panic  == [tag |-> "Panic", val |-> Finite(0)]
NoCall == [tag |-> "None", val |-> Finite(0)]

\* hours_or_degrees + (mins / 60.0) + (secs / 3600.0), in units of 1/3600.
InDegrees(h, m, s) ==
    IF IsFinite(h) /\ IsFinite(m) /\ IsFinite(s)
    THEN Finite(3600 * h.n + 60 * m.n + s.n)
    ELSE Infinity

Times15(v) == IF IsFinite(v) THEN Finite(15 * v.n) ELSE Infinity

to_decimal_degrees(s, kind) ==
    LET tokens == Tokens(s) IN
    IF Len(tokens) < 1 THEN Panic
    ELSE LET h == ParseF32(tokens[1]) IN
    IF ~h.ok THEN Err
    ELSE IF Len(tokens) < 2 THEN Panic
    ELSE LET m == ParseF32(tokens[2]) IN
    IF ~m.ok THEN Err
    ELSE IF Len(tokens) < 3 THEN Panic
    ELSE LET sc == ParseF32(tokens[3]) IN
    IF ~sc.ok THEN Err
    ELSE LET in_degrees == InDegrees(h.val, m.val, sc.val) IN
         IF kind = "RA" THEN Ok(Times15(in_degrees)) ELSE Ok(in_degrees)

(***************************************************************************)
(* Fixed-point helpers of the query pipeline.  Angles are counts of 1/1000 *)
(* degree, sines and cosines counts of 1/10000.                            *)
(***************************************************************************)
Abs(x) == IF x < 0 THEN -x ELSE x

\* x / d rounded to the nearest integer (d > 0).
RoundDiv(x, d) == IF x >= 0 THEN (2 * x + d) \div (2 * d)
                  ELSE -((2 * (-x) + d) \div (2 * d))

\* Rust's % on f32 (fmod): the result has the sign of the dividend.
RustRem(x, m) == IF x >= 0 THEN x % m ELSE -((-x) % m)

\* 10000 * sin(d degrees) for d = 0..90.
SinTable ==
    << 0, 175, 349, 523, 698, 872, 1045, 1219, 1392, 1564,
       1736, 1908, 2079, 2250, 2419, 2588, 2756, 2924, 3090, 3256,
       3420, 3584, 3746, 3907, 4067, 4226, 4384, 4540, 4695, 4848,
       5000, 5150, 5299, 5446, 5592, 5736, 5878, 6018, 6157, 6293,
       6428, 6561, 6691, 6820, 6947, 7071, 7193, 7314, 7431, 7547,
       7660, 7771, 7880, 7986, 8090, 8192, 8290, 8387, 8480, 8572,
       8660, 8746, 8829, 8910, 8988, 9063, 9135, 9205, 9272, 9336,
       9397, 9455, 9511, 9563, 9613, 9659, 9703, 9744, 9781, 9816,
       9848, 9877, 9903, 9925, 9945, 9962, 9976, 9986, 9994, 9998,
       10000 >>

\* sine of a whole number of degrees
SinDeg(d) ==
    LET r == d % 360 IN
    IF r <= 90 THEN SinTable[r + 1]
    ELSE IF r <= 180 THEN SinTable[180 - r + 1]
    ELSE IF r <= 270 THEN -SinTable[r - 180 + 1]
    ELSE -SinTable[360 - r + 1]

\* x.to_radians().sin() and x.to_radians().cos(), to the nearest degree
Sin(x) == SinDeg(RoundDiv(x, 1000))
Cos(x) == SinDeg(RoundDiv(x, 1000) + 90)

\* the product of two sines or cosines
Mul(a, b) == RoundDiv(a * b, 10000)

\* v.asin().to_degrees(), to the nearest degree: NaN outside [-1, 1]
Asin(v) ==
    IF Abs(v) > 10000 THEN NaN
    ELSE Finite(1000 * (Cardinality({ d \in -89..90 :
                                        SinDeg(d - 1) + SinDeg(d) <= 2 * v }) - 90))

\* v.acos().to_degrees() of an f32 v: NaN for NaN, the infinities and
\* anything else outside [-1, 1]
Acos(v) ==
    IF ~IsFinite(v) THEN NaN
    ELSE LET a == Asin(v.n) IN
         IF IsFinite(a) THEN Finite(90000 - a.n) ELSE NaN

\* the f32 quotient num / den: 0/0 is NaN, x/0 an infinity
Quotient(num, den) ==
    IF den = 0 THEN (IF num = 0 THEN NaN ELSE Infinity)
    ELSE Finite(RoundDiv(Abs(num) * 10000, Abs(den))
                * (IF (num < 0) = (den < 0) THEN 1 ELSE -1))

(***************************************************************************)
(* calculate_days_since_j2000 and calculate_local_sidereal_time.  An       *)
(* instant is a whole number of minutes since 2000-01-01 12:00:00 UTC.     *)
(***************************************************************************)
\* (now - j2000).num_seconds() as f32 / (24.0 * 3600.0), in units of 1/1440 day
calculate_days_since_j2000(now) == now

\* now.hour() * 60 + now.minute(): the minute of the UTC day
MinuteOfDay(now) == (now + 720) % 1440

\* 0.985647 * days_j2000, in 1/1000 degree
SiderealDrift(days) ==
    LET whole == days \div 1440
        part  == days % 1440
    IN 985 * whole + ((647 * whole) \div 1000) + ((985647 * part) \div 1440000)

\* (100.46 + 0.985647 * days_j2000 + long + 15.0 * ut + 360.0) % 360.0, where
\* 15.0 * ut is a quarter of a degree for every minute of the day
calculate_local_sidereal_time(days, long, now) ==
    RustRem(100460 + SiderealDrift(days) + long + 250 * MinuteOfDay(now) + 360000,
            360000)

(***************************************************************************)
(* calculate_alt_az                                                        *)
(***************************************************************************)
PrelimAlt(ha, dec, lat) ==
    Mul(Sin(dec), Sin(lat)) + Mul(Mul(Cos(dec), Cos(lat)), Cos(ha))

\* alt: prelim_alt.asin().to_degrees()
Altitude(ha, dec, lat) == Asin(PrelimAlt(ha, dec, lat))

\* alt.to_radians().cos() * location.lat.to_radians().cos()
CosAltCosLat(alt, lat) == Mul(Cos(alt), Cos(lat))

\* prelim_az, after .acos().to_degrees()
PrelimAz(ha, dec, lat) ==
    LET alt == Altitude(ha, dec, lat) IN
    IF ~IsFinite(alt) THEN NaN
    ELSE Acos(Quotient(Sin(dec) - Mul(Sin(alt.n), Sin(lat)),
                       CosAltCosLat(alt.n, lat)))

\* 360.0 - prelim_az
From360(v) == IF IsFinite(v) THEN Finite(360000 - v.n) ELSE v

\* az, as the code computes it in the branch it takes
Azimuth(ha, dec, lat) ==
    IF Sin(ha) < 0 THEN PrelimAz(ha, dec, lat) ELSE From360(PrelimAz(ha, dec, lat))

calculate_alt_az(ha, dec, lat) ==
    LET alt == Altitude(ha, dec, lat)
        az  == Azimuth(ha, dec, lat)
    IN IF Sin(ha) < 0 THEN <<az, alt>> ELSE <<alt, az>>

(***************************************************************************)
(* Inputs of a query.                                                      *)
(***************************************************************************)
MaxTicks == 2

\* 1970-01-01 00:00, 2000-01-01 12:00, 2026-10-31 23:59 and 2026-11-01 00:00 UTC
StartInstants == { -15778800, 0, 14112719, 14112720 }
\* the clock moves by a minute or by an hour
TickSteps == { 1, 60 }

RightAscensions == { 0, 83633, 360000 }
Declinations    == { -90000, 0, 22014, 45000, 90000 }
Latitudes       == { -90000, 0, 34052, 90000 }
Longitudes      == { -180000, 0, 118244 }

NoTuple == << Finite(0), Finite(0) >>

(***************************************************************************)
(* The parser under test: an input and a kind are drawn, then parsed; no   *)
(* query runs.                                                             *)
(***************************************************************************)
QueryIdle ==
    /\ clock = 0 /\ ticks = 0
    /\ object = [right_ascension |-> 0, declination |-> 0]
    /\ location_info = [lat |-> 0, long |-> 0]
    /\ pc = "idle" /\ reads = <<>>
    /\ days_j2000 = 0 /\ local_sidereal_time = 0 /\ hour_angle = 0
    /\ alt_az = NoTuple

ParseInit ==
    /\ input \in Inputs
    /\ coord_type \in Coord
    /\ result = NoCall
    /\ QueryIdle

Parse ==
    /\ result = NoCall
    /\ result' = to_decimal_degrees(input, coord_type)
    /\ UNCHANGED <<input, coord_type, queryVars>>

ParseNext == Parse

ParseSpec == ParseInit /\ [][ParseNext]_vars

(***************************************************************************)
(* AstroObject::coords_as_alt_az, step by step, with the system clock      *)
(* moving between the steps.                                               *)
(***************************************************************************)
QueryInit ==
    /\ input = <<>> /\ coord_type = "RA" /\ result = NoCall
    /\ clock \in StartInstants
    /\ ticks = 0
    /\ object \in [right_ascension : RightAscensions, declination : Declinations]
    /\ location_info \in [lat : Latitudes, long : Longitudes]
    /\ pc = "start"
    /\ reads = <<>>
    /\ days_j2000 = 0 /\ local_sidereal_time = 0 /\ hour_angle = 0
    /\ alt_az = NoTuple

\* the system clock advances while the query runs
Tick ==
    /\ pc # "done"
    /\ ticks < MaxTicks
    /\ \E step \in TickSteps : clock' = clock + step
    /\ ticks' = ticks + 1
    /\ UNCHANGED <<parserVars, object, location_info, pc, reads,
                   days_j2000, local_sidereal_time, hour_angle, alt_az>>

\* let days_j2000 = calculate_days_since_j2000();   (reads Utc::now())
DaysSinceJ2000 ==
    /\ pc = "start"
    /\ reads' = Append(reads, clock)
    /\ days_j2000' = calculate_days_since_j2000(clock)
    /\ pc' = "days"
    /\ UNCHANGED <<parserVars, clock, ticks, object, location_info,
                   local_sidereal_time, hour_angle, alt_az>>

\* let local_sidereal_time = calculate_local_sidereal_time(days_j2000, long);
\* (reads Utc::now() again)
LocalSiderealTime ==
    /\ pc = "days"
    /\ reads' = Append(reads, clock)
    /\ local_sidereal_time' =
           calculate_local_sidereal_time(days_j2000, location_info.long, clock)
    /\ pc' = "lst"
    /\ UNCHANGED <<parserVars, clock, ticks, object, location_info,
                   days_j2000, hour_angle, alt_az>>

\* hour_angle = local_sidereal_time - self.right_ascension, plus 360 if negative
HourAngle(lst, ra) == IF lst - ra < 0 THEN lst - ra + 360000 ELSE lst - ra

\* the rest of coords_as_alt_az: the hour angle and the call of calculate_alt_az
AltAz ==
    /\ pc = "lst"
    /\ hour_angle' = HourAngle(local_sidereal_time, object.right_ascension)
    /\ alt_az' = calculate_alt_az(hour_angle', object.declination, location_info.lat)
    /\ pc' = "done"
    /\ UNCHANGED <<parserVars, clock, ticks, object, location_info, reads,
                   days_j2000, local_sidereal_time>>

QueryNext == Tick \/ DaysSinceJ2000 \/ LocalSiderealTime \/ AltAz

QuerySpec == QueryInit /\ [][QueryNext]_vars

(***************************************************************************)
(* What the properties of the parser speak about, read off the input       *)
(* string itself: a token is a maximal run of characters that are no       *)
(* separators.                                                             *)
(***************************************************************************)
RunStarts(s) ==
    { i \in 1..Len(s) : s[i] \notin Separators /\ (i = 1 \/ s[i - 1] \in Separators) }

NumTokens(s) == Cardinality(RunStarts(s))

\* where the k-th token starts and ends
RunStart(s, k) ==
    CHOOSE a \in RunStarts(s) : Cardinality({ b \in RunStarts(s) : b < a }) = k - 1

RunEnd(s, a) ==
    CHOOSE j \in a..Len(s) :
        /\ \A i \in a..j : s[i] \notin Separators
        /\ (j = Len(s) \/ s[j + 1] \in Separators)

Token(s, k) == SubSeq(s, RunStart(s, k), RunEnd(s, RunStart(s, k)))

\* a token that is a real number: here, a string of decimal digits
IsRealNumber(tok) == tok # <<>> /\ \A i \in 1..Len(tok) : tok[i] \in DOMAIN Digit

\* the input consists of exactly three tokens, all of them numbers
ThreeNumeric(s) ==
    /\ NumTokens(s) = 3
    /\ \A k \in 1..3 : IsRealNumber(Token(s, k))

Number(s, k) == DecimalValue(Token(s, k))

\* w + m/60 + s/3600, in units of 1/3600 degree
Sexagesimal(s) == 3600 * Number(s, 1) + 60 * Number(s, 2) + Number(s, 3)

Called == result # NoCall

\* the input with its first character replaced by '+'
WithPlus(s) == [i \in 1..Len(s) |-> IF i = 1 THEN "+" ELSE s[i]]

\* C1: an input with fewer than three non-empty tokens (the empty string, one
\* or two tokens) makes to_decimal_degrees return an error value, never panic.
C1_FewTokensReturnErr ==
    (Called /\ NumTokens(input) < 3) => result.tag = "Err"

\* C2: a declination with a leading '-' and three numeric tokens, not all
\* zero, parses to a negative value whose magnitude is the value of the same
\* string with '+' in place of the '-'.
C2_NegativeDeclination ==
    ( /\ Called
      /\ coord_type = "DEC"
      /\ input # <<>> /\ input[1] = "-"
      /\ ThreeNumeric(input)
      /\ \E k \in 1..3 : Number(input, k) # 0 )
    => /\ result.tag = "Ok"
       /\ IsFinite(result.val)
       /\ result.val.n < 0
       /\ to_decimal_degrees(WithPlus(input), "DEC") = Ok(Finite(-result.val.n))

\* C7: to_decimal_degrees accepts an input only when it has exactly three
\* tokens; with four or more it does not answer as if only the first three
\* were there.
C7_OnlyThreeTokensAccepted ==
    (Called /\ result.tag = "Ok") => NumTokens(input) = 3

\* C9: an input of three numeric tokens (w, m, s) parses to w + m/60 + s/3600
\* for DEC and to 15 times that for RA, whatever separators and empty pieces
\* lie between, before and after the numbers.
C9_SexagesimalValue ==
    (Called /\ ThreeNumeric(input)) =>
        result = Ok(Finite(IF coord_type = "RA"
                           THEN 15 * Sexagesimal(input)
                           ELSE Sexagesimal(input)))

\* C9 witness: a right ascension of three numbers of different lengths, with
\* a doubled separator (an empty piece) between the first two, has been
\* parsed.
C9_Witness ==
    /\ Called
    /\ coord_type = "RA"
    /\ input = <<"1", " ", " ", "1", "1", " ", "1">>
    /\ result = Ok(Finite(15 * (3600 * 1 + 60 * 11 + 1)))

\* C10: when one of the three tokens used as whole units, minutes and seconds
\* is not a valid real number, to_decimal_degrees returns an error value; it
\* neither panics nor returns a number.  (Stated for inputs that have the
\* three tokens, so that it does not rest on C1.)
C10_NonNumberReturnsErr ==
    ( /\ Called
      /\ NumTokens(input) >= 3
      /\ \E k \in 1..3 : ~IsRealNumber(Token(input, k)) )
    => result.tag = "Err"

(***************************************************************************)
(* Properties of the query.                                                *)
(***************************************************************************)
\* C3: calculate_alt_az returns (altitude, azimuth) in this order for every
\* hour angle, in the branch sin(ha) < 0 as in the other one.
C3_AltitudeFirst ==
    pc = "done" =>
        /\ alt_az[1] = Altitude(hour_angle, object.declination, location_info.lat)
        /\ alt_az[2] = Azimuth(hour_angle, object.declination, location_info.lat)

\* C4: one coords_as_alt_az query reads the system clock exactly once, so the
\* days since J2000 and the UT hours come from the same instant, whatever the
\* clock does meanwhile.
C4_ClockReadOnce ==
    pc = "done" =>
        /\ Len(reads) = 1
        /\ \A i, j \in 1..Len(reads) : reads[i] = reads[j]

\* C5: the local sidereal time lies in [0, 360) for any days since the epoch,
\* positive or negative, any longitude and any UT.
C5_SiderealTimeInRange ==
    pc \in {"lst", "done"} =>
        (0 <= local_sidereal_time /\ local_sidereal_time < 360000)

\* C6: when cos(altitude) * cos(latitude) is zero, calculate_alt_az yields a
\* defined outcome and no NaN.  (The function returns a pair of f32 and has
\* no way to report an error, so a defined outcome is a pair of finite
\* numbers.)
C6_NoNaNAtZeroDivisor ==
    ( /\ pc = "done"
      /\ LET alt == Altitude(hour_angle, object.declination, location_info.lat) IN
            IsFinite(alt) /\ CosAltCosLat(alt.n, location_info.lat) = 0 )
    => (IsFinite(alt_az[1]) /\ IsFinite(alt_az[2]))

\* C8: for a right ascension in [0, 360] the hour angle handed to
\* calculate_alt_az is the local sidereal time minus the right ascension,
\* plus 360 if that is negative, and lies in [0, 360).
C8_HourAngleInRange ==
    ( /\ pc = "done"
      /\ 0 <= object.right_ascension /\ object.right_ascension <= 360000 )
    => LET diff == local_sidereal_time - object.right_ascension IN
       /\ hour_angle = IF diff < 0 THEN diff + 360000 ELSE diff
       /\ 0 <= hour_angle /\ hour_angle < 360000

====
